---- MODULE Spec2Model ----
(***************************************************************************)
(* chemistry-toolkit: the element dataset builder                          *)
(* (elements_json_creation.py) and the formula parser / molar mass         *)
(* calculator (molar_mass.py).                                             *)
(*                                                                         *)
(* Strings of the program that are scanned character by character          *)
(* (formulas, tokens, element symbols) are sequences of one-character      *)
(* strings: "Al" is <<"A", "l">>.  Atomic masses and totals are exact      *)
(* fixed-point numbers <<whole, d1, d2, d3, d4>>, each d a pair of         *)
(* decimal digits: 26.981538 is <<26, 98, 15, 38, 0>>.  The program holds  *)
(* them as binary floats; the rounding of floats is not modelled.          *)
(***************************************************************************)
EXTENDS Integers, Sequences, FiniteSets, TLC

VARIABLES
    elements_json,   \* builder: the records appended so far
    enum_i,          \* builder: the index enumerate() gave last (0 before the loop)
    file,            \* the dataset file elements.json
    elements,        \* calculator: module-level `elements`
    element_masses,  \* calculator: module-level lookup {symbol: atomic_mass}
    proc,            \* calculator: position of the module-level code
    formula,         \* the formula of the current call
    matches,         \* parse_formula: the token list
    stack,           \* parse_formula: the stack of frames
    i,               \* parse_formula: the loop index (0-based)
    composition,     \* calculate_molar_mass: the parsed composition
    items,           \* calculate_molar_mass: composition items not yet summed
    total_mass,      \* calculate_molar_mass: the running total
    outcome,         \* what the current call returned or raised
    pc,              \* position of the current call
    first,           \* the first completed call of the run
    calls            \* the number of calls begun

vars == <<elements_json, enum_i, file, elements, element_masses, proc,
          formula, matches, stack, i, composition, items, total_mass,
          outcome, pc, first, calls>>

builderVars == <<elements_json, enum_i>>
loaderVars  == <<elements, element_masses, proc>>
callVars    == <<formula, matches, stack, i, composition, items, total_mass,
                 outcome, pc>>

---------------------------------------------------------------------------
(* Bounds of the model.                                                    *)

MaxLen     == 6   \* longest enumerated formula over FormulaChars
MaxSkipLen == 4   \* longest enumerated formula over SkipChars
MaxCallLen == 1   \* longest enumerated formula of a call in a sequence of calls
MaxCalls   == 3   \* calls in a sequence of calls

---------------------------------------------------------------------------
(* Character classes of the regular expressions.                           *)

Upper == {"A","B","C","D","E","F","G","H","I","J","K","L","M",
          "N","O","P","Q","R","S","T","U","V","W","X","Y","Z"}
Lower == {"a","b","c","d","e","f","g","h","i","j","k","l","m",
          "n","o","p","q","r","s","t","u","v","w","x","y","z"}
DigitValue == [c \in {"0","1","2","3","4","5","6","7","8","9"} |->
                 CASE c = "0" -> 0 [] c = "1" -> 1 [] c = "2" -> 2
                   [] c = "3" -> 3 [] c = "4" -> 4 [] c = "5" -> 5
                   [] c = "6" -> 6 [] c = "7" -> 7 [] c = "8" -> 8
                   [] c = "9" -> 9]
Digit == DOMAIN DigitValue

---------------------------------------------------------------------------
(* elements_json_creation.py                                               *)

PUBCHEM_URL == "https://pubchem.ncbi.nlm.nih.gov/ptable/atomic-mass/"
RSC_URL == "https://periodic-table.rsc.org/?gad_source=1&gad_campaignid=116934383&gbraid=0AAAAADs4yQFnMI3HEftlCZXwrgIx-nE-U&gclid=CjwKCAjw_pDBBhBMEiwAmY02NjNlc40_jQymbG-K31Rcv6QFF5ta-90Ff5ptaHfqarkn8X7msW32WRoCCsoQAvD_BwE"

ALTERNATE_SOURCE_ELEMENTS ==
    { <<"L","i">>, <<"A","r">>, <<"Z","n">>, <<"S","e">>, <<"B","r">>,
      <<"K","r">>, <<"R","u">>, <<"C","d">>, <<"B","a">>, <<"N","d">>,
      <<"S","m">>, <<"E","r">>, <<"Y","b">>, <<"H","f">>, <<"O","s">>,
      <<"I","r">>, <<"P","t">>, <<"H","g">>, <<"P","b">> }

\* (name, symbol, atomic_mass, group)
elements_data ==
    <<
       <<"Hydrogen", <<"H">>, <<1, 0, 80, 0, 0>>, "Nonmetal">>,
       <<"Helium", <<"H", "e">>, <<4, 0, 26, 0, 0>>, "Noble Gas">>,
       <<"Lithium", <<"L", "i">>, <<6, 94, 10, 0, 0>>, "Alkali Metal">>,
       <<"Beryllium", <<"B", "e">>, <<9, 1, 21, 83, 0>>, "Alkaline Earth Metal">>,
       <<"Boron", <<"B">>, <<10, 81, 0, 0, 0>>, "Metalloid">>,
       <<"Carbon", <<"C">>, <<12, 1, 10, 0, 0>>, "Nonmetal">>,
       <<"Nitrogen", <<"N">>, <<14, 0, 70, 0, 0>>, "Nonmetal">>,
       <<"Oxygen", <<"O">>, <<15, 99, 90, 0, 0>>, "Nonmetal">>,
       <<"Fluorine", <<"F">>, <<18, 99, 84, 3, 16>>, "Halogen">>,
       <<"Neon", <<"N", "e">>, <<20, 18, 0, 0, 0>>, "Noble Gas">>,
       <<"Sodium", <<"N", "a">>, <<22, 98, 97, 69, 30>>, "Alkali Metal">>,
       <<"Magnesium", <<"M", "g">>, <<24, 30, 50, 0, 0>>, "Alkaline Earth Metal">>,
       <<"Aluminium", <<"A", "l">>, <<26, 98, 15, 38, 0>>, "Post-transition Metal">>,
       <<"Silicon", <<"S", "i">>, <<28, 8, 50, 0, 0>>, "Metalloid">>,
       <<"Phosphorus", <<"P">>, <<30, 97, 37, 62, 0>>, "Nonmetal">>,
       <<"Sulfur", <<"S">>, <<32, 7, 0, 0, 0>>, "Nonmetal">>,
       <<"Chlorine", <<"C", "l">>, <<35, 45, 0, 0, 0>>, "Halogen">>,
       <<"Argon", <<"A", "r">>, <<39, 95, 0, 0, 0>>, "Noble Gas">>,
       <<"Potassium", <<"K">>, <<39, 9, 83, 0, 0>>, "Alkali Metal">>,
       <<"Calcium", <<"C", "a">>, <<40, 8, 0, 0, 0>>, "Alkaline Earth Metal">>,
       <<"Scandium", <<"S", "c">>, <<44, 95, 59, 10, 0>>, "Transition Metal">>,
       <<"Titanium", <<"T", "i">>, <<47, 86, 70, 0, 0>>, "Transition Metal">>,
       <<"Vanadium", <<"V">>, <<50, 94, 15, 0, 0>>, "Transition Metal">>,
       <<"Chromium", <<"C", "r">>, <<51, 99, 60, 0, 0>>, "Transition Metal">>,
       <<"Manganese", <<"M", "n">>, <<54, 93, 80, 40, 0>>, "Transition Metal">>,
       <<"Iron", <<"F", "e">>, <<55, 84, 0, 0, 0>>, "Transition Metal">>,
       <<"Cobalt", <<"C", "o">>, <<58, 93, 31, 90, 0>>, "Transition Metal">>,
       <<"Nickel", <<"N", "i">>, <<58, 69, 30, 0, 0>>, "Transition Metal">>,
       <<"Copper", <<"C", "u">>, <<63, 55, 0, 0, 0>>, "Transition Metal">>,
       <<"Zinc", <<"Z", "n">>, <<65, 38, 0, 0, 0>>, "Transition Metal">>,
       <<"Gallium", <<"G", "a">>, <<69, 72, 30, 0, 0>>, "Post-transition Metal">>,
       <<"Germanium", <<"G", "e">>, <<72, 63, 0, 0, 0>>, "Metalloid">>,
       <<"Arsenic", <<"A", "s">>, <<74, 92, 15, 90, 0>>, "Metalloid">>,
       <<"Selenium", <<"S", "e">>, <<78, 97, 10, 0, 0>>, "Nonmetal">>,
       <<"Bromine", <<"B", "r">>, <<79, 90, 40, 0, 0>>, "Halogen">>,
       <<"Krypton", <<"K", "r">>, <<83, 79, 80, 0, 0>>, "Noble Gas">>,
       <<"Rubidium", <<"R", "b">>, <<85, 46, 80, 0, 0>>, "Alkali Metal">>,
       <<"Strontium", <<"S", "r">>, <<87, 62, 0, 0, 0>>, "Alkaline Earth Metal">>,
       <<"Yttrium", <<"Y">>, <<88, 90, 58, 40, 0>>, "Transition Metal">>,
       <<"Zirconium", <<"Z", "r">>, <<91, 22, 0, 0, 0>>, "Transition Metal">>,
       <<"Niobium", <<"N", "b">>, <<92, 90, 63, 70, 0>>, "Transition Metal">>,
       <<"Molybdenum", <<"M", "o">>, <<95, 95, 0, 0, 0>>, "Transition Metal">>,
       <<"Technetium", <<"T", "c">>, <<96, 90, 63, 60, 0>>, "Transition Metal">>,
       <<"Ruthenium", <<"R", "u">>, <<101, 7, 0, 0, 0>>, "Transition Metal">>,
       <<"Rhodium", <<"R", "h">>, <<102, 90, 55, 0, 0>>, "Transition Metal">>,
       <<"Palladium", <<"P", "d">>, <<106, 42, 0, 0, 0>>, "Transition Metal">>,
       <<"Silver", <<"A", "g">>, <<107, 86, 80, 0, 0>>, "Transition Metal">>,
       <<"Cadmium", <<"C", "d">>, <<112, 41, 40, 0, 0>>, "Transition Metal">>,
       <<"Indium", <<"I", "n">>, <<114, 81, 80, 0, 0>>, "Post-transition Metal">>,
       <<"Tin", <<"S", "n">>, <<118, 71, 0, 0, 0>>, "Post-transition Metal">>,
       <<"Antimony", <<"S", "b">>, <<121, 76, 0, 0, 0>>, "Metalloid">>,
       <<"Tellurium", <<"T", "e">>, <<127, 60, 0, 0, 0>>, "Metalloid">>,
       <<"Iodine", <<"I">>, <<126, 90, 45, 0, 0>>, "Halogen">>,
       <<"Xenon", <<"X", "e">>, <<131, 29, 0, 0, 0>>, "Noble Gas">>,
       <<"Cesium", <<"C", "s">>, <<132, 90, 54, 52, 0>>, "Alkali Metal">>,
       <<"Barium", <<"B", "a">>, <<137, 32, 70, 0, 0>>, "Alkaline Earth Metal">>,
       <<"Lanthanum", <<"L", "a">>, <<138, 90, 55, 0, 0>>, "Lanthanide">>,
       <<"Cerium", <<"C", "e">>, <<140, 11, 60, 0, 0>>, "Lanthanide">>,
       <<"Praseodymium", <<"P", "r">>, <<140, 90, 76, 60, 0>>, "Lanthanide">>,
       <<"Neodymium", <<"N", "d">>, <<144, 24, 20, 0, 0>>, "Lanthanide">>,
       <<"Promethium", <<"P", "m">>, <<144, 91, 27, 60, 0>>, "Lanthanide">>,
       <<"Samarium", <<"S", "m">>, <<150, 36, 0, 0, 0>>, "Lanthanide">>,
       <<"Europium", <<"E", "u">>, <<151, 96, 40, 0, 0>>, "Lanthanide">>,
       <<"Gadolinium", <<"G", "d">>, <<157, 25, 0, 0, 0>>, "Lanthanide">>,
       <<"Terbium", <<"T", "b">>, <<158, 92, 53, 50, 0>>, "Lanthanide">>,
       <<"Dysprosium", <<"D", "y">>, <<162, 50, 0, 0, 0>>, "Lanthanide">>,
       <<"Holmium", <<"H", "o">>, <<164, 93, 3, 30, 0>>, "Lanthanide">>,
       <<"Erbium", <<"E", "r">>, <<167, 25, 90, 0, 0>>, "Lanthanide">>,
       <<"Thulium", <<"T", "m">>, <<168, 93, 42, 20, 0>>, "Lanthanide">>,
       <<"Ytterbium", <<"Y", "b">>, <<173, 4, 50, 0, 0>>, "Lanthanide">>,
       <<"Lutetium", <<"L", "u">>, <<174, 96, 67, 0, 0>>, "Lanthanide">>,
       <<"Hafnium", <<"H", "f">>, <<178, 48, 60, 0, 0>>, "Transition Metal">>,
       <<"Tantalum", <<"T", "a">>, <<180, 94, 79, 0, 0>>, "Transition Metal">>,
       <<"Tungsten", <<"W">>, <<183, 84, 0, 0, 0>>, "Transition Metal">>,
       <<"Rhenium", <<"R", "e">>, <<186, 20, 70, 0, 0>>, "Transition Metal">>,
       <<"Osmium", <<"O", "s">>, <<190, 23, 0, 0, 0>>, "Transition Metal">>,
       <<"Iridium", <<"I", "r">>, <<192, 21, 70, 0, 0>>, "Transition Metal">>,
       <<"Platinum", <<"P", "t">>, <<195, 8, 40, 0, 0>>, "Transition Metal">>,
       <<"Gold", <<"A", "u">>, <<196, 96, 65, 70, 0>>, "Transition Metal">>,
       <<"Mercury", <<"H", "g">>, <<200, 59, 20, 0, 0>>, "Transition Metal">>,
       <<"Thallium", <<"T", "l">>, <<204, 38, 30, 0, 0>>, "Post-transition Metal">>,
       <<"Lead", <<"P", "b">>, <<207, 20, 0, 0, 0>>, "Post-transition Metal">>,
       <<"Bismuth", <<"B", "i">>, <<208, 98, 4, 0, 0>>, "Post-transition Metal">>,
       <<"Polonium", <<"P", "o">>, <<208, 98, 24, 30, 0>>, "Metalloid">>,
       <<"Astatine", <<"A", "t">>, <<209, 98, 71, 50, 0>>, "Halogen">>,
       <<"Radon", <<"R", "n">>, <<222, 1, 75, 80, 0>>, "Noble Gas">>,
       <<"Francium", <<"F", "r">>, <<223, 1, 97, 30, 0>>, "Alkali Metal">>,
       <<"Radium", <<"R", "a">>, <<226, 2, 54, 10, 0>>, "Alkaline Earth Metal">>,
       <<"Actinium", <<"A", "c">>, <<227, 2, 77, 50, 0>>, "Actinide">>,
       <<"Thorium", <<"T", "h">>, <<232, 3, 80, 0, 0>>, "Actinide">>,
       <<"Protactinium", <<"P", "a">>, <<231, 3, 58, 80, 0>>, "Actinide">>,
       <<"Uranium", <<"U">>, <<238, 2, 89, 0, 0>>, "Actinide">>,
       <<"Neptunium", <<"N", "p">>, <<237, 4, 81, 72, 0>>, "Actinide">>,
       <<"Plutonium", <<"P", "u">>, <<244, 6, 42, 0, 0>>, "Actinide">>,
       <<"Americium", <<"A", "m">>, <<243, 6, 13, 80, 0>>, "Actinide">>,
       <<"Curium", <<"C", "m">>, <<247, 7, 3, 50, 0>>, "Actinide">>,
       <<"Berkelium", <<"B", "k">>, <<247, 7, 3, 10, 0>>, "Actinide">>,
       <<"Californium", <<"C", "f">>, <<251, 7, 95, 90, 0>>, "Actinide">>,
       <<"Einsteinium", <<"E", "s">>, <<252, 8, 30, 0, 0>>, "Actinide">>,
       <<"Fermium", <<"F", "m">>, <<257, 9, 51, 10, 0>>, "Actinide">>,
       <<"Mendelevium", <<"M", "d">>, <<258, 9, 84, 30, 0>>, "Actinide">>,
       <<"Nobelium", <<"N", "o">>, <<259, 10, 10, 0, 0>>, "Actinide">>,
       <<"Lawrencium", <<"L", "r">>, <<266, 12, 0, 0, 0>>, "Actinide">>,
       <<"Rutherfordium", <<"R", "f">>, <<267, 12, 20, 0, 0>>, "Transition Metal">>,
       <<"Dubnium", <<"D", "b">>, <<268, 12, 60, 0, 0>>, "Transition Metal">>,
       <<"Seaborgium", <<"S", "g">>, <<269, 12, 80, 0, 0>>, "Transition Metal">>,
       <<"Bohrium", <<"B", "h">>, <<270, 13, 30, 0, 0>>, "Transition Metal">>,
       <<"Hassium", <<"H", "s">>, <<269, 13, 36, 0, 0>>, "Transition Metal">>,
       <<"Meitnerium", <<"M", "t">>, <<277, 15, 40, 0, 0>>, "Unknown">>,
       <<"Darmstadtium", <<"D", "s">>, <<282, 16, 60, 0, 0>>, "Unknown">>,
       <<"Roentgenium", <<"R", "g">>, <<282, 16, 90, 0, 0>>, "Unknown">>,
       <<"Copernicium", <<"C", "n">>, <<286, 17, 90, 0, 0>>, "Transition Metal">>,
       <<"Nihonium", <<"N", "h">>, <<286, 18, 20, 0, 0>>, "Post-transition Metal">>,
       <<"Flerovium", <<"F", "l">>, <<290, 19, 20, 0, 0>>, "Post-transition Metal">>,
       <<"Moscovium", <<"M", "c">>, <<290, 19, 60, 0, 0>>, "Post-transition Metal">>,
       <<"Livermorium", <<"L", "v">>, <<293, 20, 50, 0, 0>>, "Post-transition Metal">>,
       <<"Tennessine", <<"T", "s">>, <<294, 21, 10, 0, 0>>, "Halogen">>,
       <<"Oganesson", <<"O", "g">>, <<295, 21, 60, 0, 0>>, "Noble Gas">>
    >>

\* The record numbered from 0.
ElementRecordFromZero(n, t) ==
    [ name          |-> t[1],
      symbol        |-> t[2],
      atomic_number |-> n - 1,
      atomic_mass   |-> t[3],
      group         |-> t[4],
      source        |-> IF t[2] \in ALTERNATE_SOURCE_ELEMENTS
                        THEN RSC_URL ELSE PUBCHEM_URL ]

\* One pass of the loop body: the record built from tuple t at index n.
ElementRecord(n, t) ==
    [ name          |-> t[1],
      symbol        |-> t[2],
      atomic_number |-> n,
      atomic_mass   |-> t[3],
      group         |-> t[4],
      source        |-> IF t[2] \in ALTERNATE_SOURCE_ELEMENTS
                        THEN RSC_URL ELSE PUBCHEM_URL ]

\* for i, (...) in enumerate(elements_data, start = 1): ... append
BuildIter ==
    /\ enum_i < Len(elements_data)
    /\ enum_i' = enum_i + 1
    /\ elements_json' =
           Append(elements_json, ElementRecord(enum_i + 1, elements_data[enum_i + 1]))
    /\ UNCHANGED <<file, loaderVars, callVars, first>>
    /\ UNCHANGED calls

---------------------------------------------------------------------------
(* The dataset file.  A file is missing, holds bytes that do not decode,   *)
(* holds text that is not JSON, or holds a JSON value.  A JSON value is    *)
(* [jt, list, obj]: a list of values, an object (a record) or a number.    *)

JList(l)   == [jt |-> "list",   list |-> l,    obj |-> <<>>]
JObject(o) == [jt |-> "object", list |-> <<>>, obj |-> o]
JNumber    == [jt |-> "number", list |-> <<>>, obj |-> <<>>]

MissingFile  == [kind |-> "missing",     value |-> JList(<<>>)]
BinaryFile   == [kind |-> "undecodable", value |-> JList(<<>>)]
GarbageFile  == [kind |-> "not_json",    value |-> JList(<<>>)]
JsonFile(v)  == [kind |-> "json",        value |-> v]

\* json.dump(elements_json, f, indent=4): a JSON list of one object per record
Dump(records) == JsonFile(JList([k \in 1..Len(records) |-> JObject(records[k])]))

\* if __name__ == "__main__": write elements.json once the list is complete
WriteFile ==
    /\ enum_i = Len(elements_data)
    /\ file # Dump(elements_json)
    /\ file' = Dump(elements_json)
    /\ UNCHANGED <<builderVars, loaderVars, callVars, first>>
    /\ UNCHANGED calls

---------------------------------------------------------------------------
(* molar_mass.py: loading the dataset                                      *)

\* load_elements(): the parsed JSON, or [] after FileNotFoundError or
\* json.JSONDecodeError; any other exception is not caught.
load_elements(f) ==
    CASE f.kind = "json"        -> [raised |-> "none", value |-> f.value]
      [] f.kind = "missing"     -> [raised |-> "none", value |-> JList(<<>>)]
      [] f.kind = "not_json"    -> [raised |-> "none", value |-> JList(<<>>)]
      [] f.kind = "undecodable" -> [raised |-> "UnicodeDecodeError", value |-> JList(<<>>)]

\* elements = load_elements()
Load ==
    /\ proc = "load"
    /\ LET r == load_elements(file) IN
         /\ elements' = r.value
         /\ proc' = IF r.raised = "none" THEN "lookup" ELSE "crashed"
    /\ UNCHANGED <<builderVars, file, element_masses, callVars, first>>
    /\ UNCHANGED calls

EmptyMasses == [s \in {} |-> <<0, 0, 0, 0, 0>>]

\* What el['symbol'], el['atomic_mass'] raises for one item of the list.
ItemError(el) ==
    IF el.jt # "object" THEN "TypeError"
    ELSE IF "symbol" \notin DOMAIN el.obj THEN "KeyError"
    ELSE IF "atomic_mass" \notin DOMAIN el.obj THEN "KeyError"
    ELSE "none"

\* {el['symbol']: el['atomic_mass'] for el in elements}
MassLookup(els) ==
    CASE els.jt = "number" -> [raised |-> "TypeError", masses |-> EmptyMasses]
      [] els.jt = "object" ->
            \* iterating a dict yields its keys, and a str has no ['symbol']
            IF DOMAIN els.obj = {}
            THEN [raised |-> "none", masses |-> EmptyMasses]
            ELSE [raised |-> "TypeError", masses |-> EmptyMasses]
      [] els.jt = "list" ->
            LET l   == els.list
                bad == {k \in 1..Len(l) : ItemError(l[k]) # "none"}
            IN IF bad # {}
               THEN [raised |-> ItemError(l[CHOOSE k \in bad : \A j \in bad : k <= j]),
                     masses |-> EmptyMasses]
               ELSE LET Last(s) == CHOOSE k \in 1..Len(l) :
                                      /\ l[k].obj.symbol = s
                                      /\ \A j \in 1..Len(l) :
                                            l[j].obj.symbol = s => j <= k
                    IN [raised |-> "none",
                        masses |-> [s \in {l[k].obj.symbol : k \in 1..Len(l)} |->
                                      l[Last(s)].obj.atomic_mass]]

\* element_masses = {...}; then the tests, if __name__ == "__main__"
BuildLookup ==
    /\ proc = "lookup"
    /\ LET r == MassLookup(elements) IN
         /\ element_masses' = r.masses
         /\ \E next \in {"main", "ready"} :
               proc' = IF r.raised = "none" THEN next ELSE "crashed"
    /\ UNCHANGED <<builderVars, file, elements, callVars, first>>
    /\ UNCHANGED calls

\* print(elements[18]['name']); print(element_masses['Pb'])
MainPrints ==
    /\ proc = "main"
    /\ proc' = IF /\ elements.jt = "list"
                  /\ Len(elements.list) >= 19
                  /\ "name" \in DOMAIN elements.list[19].obj
                  /\ <<"P", "b">> \in DOMAIN element_masses
               THEN "ready" ELSE "test_crashed"
    /\ UNCHANGED <<builderVars, file, elements, element_masses, callVars, first, calls>>

---------------------------------------------------------------------------
(* molar_mass.py: parse_formula                                            *)

\* Last position of the digit run that starts at position p of s.
RECURSIVE DigitRunEnd(_, _)
DigitRunEnd(s, p) ==
    IF p + 1 <= Len(s) /\ s[p + 1] \in Digit THEN DigitRunEnd(s, p + 1) ELSE p

\* re.findall(r"([A-Z][a-z]?|\d+|\(|\))", s), scanning from position p
RECURSIVE FindAllFrom(_, _)
FindAllFrom(s, p) ==
    IF p > Len(s) THEN <<>>
    ELSE IF s[p] \in Upper THEN
        IF p + 1 <= Len(s) /\ s[p + 1] \in Lower
        THEN <<SubSeq(s, p, p + 1)>> \o FindAllFrom(s, p + 2)
        ELSE <<SubSeq(s, p, p)>> \o FindAllFrom(s, p + 1)
    ELSE IF s[p] \in Digit THEN
        <<SubSeq(s, p, DigitRunEnd(s, p))>> \o FindAllFrom(s, DigitRunEnd(s, p) + 1)
    ELSE IF s[p] \in {"(", ")"} THEN
        <<SubSeq(s, p, p)>> \o FindAllFrom(s, p + 1)
    ELSE FindAllFrom(s, p + 1)

FindAll(s) == FindAllFrom(s, 1)

\* token.isdigit(), for a token of matches
IsDigitToken(token) ==
    token # <<>> /\ \A k \in 1..Len(token) : token[k] \in Digit

\* A match that takes a digit run for an element symbol too.
IsAnyToken(token) == token[1] \in Upper \cup Digit

\* re.match('[A-Z][a-z]?', token), for a token of matches
IsElementToken(token) == token[1] \in Upper

\* int(token) of a digit run
RECURSIVE IntOf(_)
IntOf(token) ==
    IF token = <<>> THEN 0
    ELSE IntOf(SubSeq(token, 1, Len(token) - 1)) * 10 + DigitValue[token[Len(token)]]

\* A frame is a dict in insertion order: a sequence of <<element, count>>.
EmptyFrame == <<>>

\* d.get(k, 0)
RECURSIVE FrameGet(_, _)
FrameGet(d, k) ==
    IF d = <<>> THEN 0
    ELSE IF d[1][1] = k THEN d[1][2]
    ELSE FrameGet(Tail(d), k)

Keys(d) == {d[n][1] : n \in 1..Len(d)}

\* d[k] = v : an existing key keeps its place, a new key goes last
RECURSIVE FrameSet(_, _, _)
FrameSet(d, k, v) ==
    IF d = <<>> THEN << <<k, v>> >>
    ELSE IF d[1][1] = k THEN << <<k, v>> >> \o Tail(d)
    ELSE <<d[1]>> \o FrameSet(Tail(d), k, v)

\* Merge with the multiplier left out.
RECURSIVE MergeUnscaled(_, _, _)
MergeUnscaled(top, group, multiplier) ==
    IF group = <<>> THEN top
    ELSE MergeUnscaled(FrameSet(top, group[1][1],
                                FrameGet(top, group[1][1]) + group[1][2]),
                       Tail(group), multiplier)

\* for element, count in group.items(): top[element] = top.get(element, 0) + count * multiplier
RECURSIVE Merge(_, _, _)
Merge(top, group, multiplier) ==
    IF group = <<>> THEN top
    ELSE Merge(FrameSet(top, group[1][1],
                        FrameGet(top, group[1][1]) + group[1][2] * multiplier),
               Tail(group), multiplier)

Top(st) == st[Len(st)]
Pop(st) == SubSeq(st, 1, Len(st) - 1)
SetTop(st, d) == [st EXCEPT ![Len(st)] = d]

\* One pass of the while loop at index k (0-based) with stack st:
\* the stack and index after it, and the exception it raised, if any.
LoopBody(m, st, k) ==
    LET token == m[k + 1] IN
    IF token = <<"(">> THEN
        [stack |-> Append(st, EmptyFrame), i |-> k + 1, raised |-> "none"]
    ELSE IF token = <<")">> THEN
        IF st = <<>> THEN      \* stack.pop() of an empty list
            [stack |-> st, i |-> k, raised |-> "IndexError"]
        ELSE
            LET group == Top(st)
                rest  == Pop(st)
                hasMul == k + 1 < Len(m) /\ IsDigitToken(m[k + 2])
                multiplier == IF hasMul THEN IntOf(m[k + 2]) ELSE 1
                k2 == IF hasMul THEN k + 2 ELSE k + 1
            IN IF group = <<>> THEN
                   [stack |-> rest, i |-> k2, raised |-> "none"]
               ELSE IF rest = <<>> THEN      \* stack[-1] of an empty list
                   [stack |-> rest, i |-> k2, raised |-> "IndexError"]
               ELSE
                   [stack |-> SetTop(rest, Merge(Top(rest), group, multiplier)),
                    i |-> k2, raised |-> "none"]
    ELSE IF IsElementToken(token) THEN
        LET hasCount == k + 1 < Len(m) /\ IsDigitToken(m[k + 2])
            count == IF hasCount THEN IntOf(m[k + 2]) ELSE 1
            k2 == IF hasCount THEN k + 1 ELSE k
        IN IF st = <<>> THEN          \* stack[-1] of an empty list
               [stack |-> st, i |-> k2, raised |-> "IndexError"]
           ELSE
               [stack |-> SetTop(st, FrameSet(Top(st), token, FrameGet(Top(st), token) + count)),
                i |-> k2 + 1, raised |-> "none"]
    ELSE
        [stack |-> st, i |-> k + 1, raised |-> "none"]

\* return stack[0]
ReturnRoot(st) ==
    IF st = <<>> THEN [raised |-> "IndexError", value |-> EmptyFrame]
    ELSE [raised |-> "none", value |-> st[1]]

\* The while loop run from index k with stack st to its end.
RECURSIVE RunLoop(_, _, _)
RunLoop(m, st, k) ==
    IF k < Len(m)
    THEN LET r == LoopBody(m, st, k) IN
         IF r.raised # "none" THEN r ELSE RunLoop(m, r.stack, r.i)
    ELSE [stack |-> st, i |-> k, raised |-> "none"]

\* The stack of the call before, kept.
KeptStack == IF stack = <<>> THEN <<EmptyFrame>> ELSE stack

\* stack = [{}]
NewStack == <<EmptyFrame>>

\* parse_formula from its token list m on: the composition, or the exception
ParseMatches(m) ==
    LET r == RunLoop(m, NewStack, 0) IN
    IF r.raised # "none" THEN [raised |-> r.raised, value |-> EmptyFrame]
    ELSE ReturnRoot(r.stack)

\* parse_formula(formula)
parse_formula(f) == ParseMatches(FindAll(f))

---------------------------------------------------------------------------
(* molar_mass.py: calculate_molar_mass                                     *)

ZeroMass == <<0, 0, 0, 0, 0>>

\* Carries the pairs of decimal digits of x into range.
Normalize(x) ==
    LET s5 == x[5]
        s4 == x[4] + (s5 \div 100)
        s3 == x[3] + (s4 \div 100)
        s2 == x[2] + (s3 \div 100)
        s1 == x[1] + (s2 \div 100)
    IN <<s1, s2 % 100, s3 % 100, s4 % 100, s5 % 100>>

\* The product with the count left out.
MassTimesOnce(m, count) == m

\* element_masses[element] * count
MassTimes(m, count) ==
    Normalize(<<m[1] * count, m[2] * count, m[3] * count, m[4] * count, m[5] * count>>)

\* total_mass += x
MassPlus(a, b) ==
    Normalize(<<a[1] + b[1], a[2] + b[2], a[3] + b[3], a[4] + b[4], a[5] + b[5]>>)

\* What a call returned or raised.
Returned(total)     == [kind |-> "returned",   element |-> <<>>, total |-> total]
ValueError(element) == [kind |-> "ValueError", element |-> element, total |-> ZeroMass]
IndexError          == [kind |-> "IndexError", element |-> <<>>, total |-> ZeroMass]
Pending             == [kind |-> "pending",    element |-> <<>>, total |-> ZeroMass]

\* The loop body passing over a symbol without mass instead of raising.
SumBodyLenient(its, total, masses) ==
    IF its[1][1] \notin DOMAIN masses
    THEN [raised |-> FALSE, element |-> its[1][1], total |-> total]
    ELSE [raised |-> FALSE, element |-> its[1][1],
          total |-> MassPlus(total, MassTimes(masses[its[1][1]], its[1][2]))]

\* One pass of the for loop over composition.items(): the first item of its.
SumBody(its, total, masses) ==
    IF its[1][1] \notin DOMAIN masses
    THEN [raised |-> TRUE, element |-> its[1][1], total |-> total]
    ELSE [raised |-> FALSE, element |-> its[1][1],
          total |-> MassPlus(total, MassTimes(masses[its[1][1]], its[1][2]))]

\* The for loop run over the items its from the running total.
RECURSIVE SumLoop(_, _, _)
SumLoop(its, total, masses) ==
    IF its = <<>> THEN Returned(total)
    ELSE LET r == SumBody(its, total, masses) IN
         IF r.raised THEN ValueError(r.element)
         ELSE SumLoop(Tail(its), r.total, masses)

\* calculate_molar_mass(formula, element_masses)
calculate_molar_mass(f, masses) ==
    LET p == parse_formula(f) IN
    IF p.raised # "none" THEN IndexError
    ELSE SumLoop(p.value, ZeroMass, masses)

---------------------------------------------------------------------------
(* A call of calculate_molar_mass, statement by statement.                 *)

\* The call ends with outcome o; the first call to end is remembered.
Finish(o, c) ==
    /\ outcome' = o
    /\ pc' = "done"
    /\ first' = IF first.set THEN first
                ELSE [set |-> TRUE, formula |-> formula, outcome |-> o,
                      composition |-> c]

\* entry, and lines 58-63 of parse_formula
CallBegin(f) ==
    /\ proc = "ready"
    /\ pc \in {"idle", "done"}
    /\ formula' = f
    /\ matches' = FindAll(f)
    /\ stack' = NewStack
    /\ i' = 0
    /\ outcome' = Pending
    /\ pc' = "parse"
    /\ calls' = calls + 1
    /\ UNCHANGED <<builderVars, file, loaderVars, composition, items, total_mass, first>>

\* one pass of the while loop
ParseIter ==
    /\ pc = "parse"
    /\ i < Len(matches)
    /\ LET r == LoopBody(matches, stack, i) IN
         /\ stack' = r.stack
         /\ i' = r.i
         /\ IF r.raised # "none"
            THEN Finish(IndexError, EmptyFrame)
            ELSE UNCHANGED <<outcome, pc, first>>
    /\ UNCHANGED <<builderVars, file, loaderVars, formula, matches, composition,
                   items, total_mass>>
    /\ UNCHANGED calls

\* return stack[0]; composition = ...; total_mass = 0
ParseReturn ==
    /\ pc = "parse"
    /\ i >= Len(matches)
    /\ LET r == ReturnRoot(stack) IN
         IF r.raised # "none"
         THEN /\ Finish(IndexError, EmptyFrame)
              /\ UNCHANGED <<composition, items, total_mass>>
         ELSE /\ composition' = r.value
              /\ items' = r.value
              /\ total_mass' = ZeroMass
              /\ pc' = "sum"
              /\ UNCHANGED <<outcome, first>>
    /\ UNCHANGED <<builderVars, file, loaderVars, formula, matches, stack, i>>
    /\ UNCHANGED calls

\* one pass of the for loop
SumIter ==
    /\ pc = "sum"
    /\ items # <<>>
    /\ LET r == SumBody(items, total_mass, element_masses) IN
         IF r.raised
         THEN /\ Finish(ValueError(r.element), composition)
              /\ UNCHANGED <<items, total_mass>>
         ELSE /\ total_mass' = r.total
              /\ items' = Tail(items)
              /\ UNCHANGED <<outcome, pc, first>>
    /\ UNCHANGED <<builderVars, file, loaderVars, formula, matches, stack, i, composition>>
    /\ UNCHANGED calls

\* return total_mass
SumReturn ==
    /\ pc = "sum"
    /\ items = <<>>
    /\ Finish(Returned(total_mass), composition)
    /\ UNCHANGED <<builderVars, file, loaderVars, formula, matches, stack, i,
                   composition, items, total_mass>>
    /\ UNCHANGED calls

---------------------------------------------------------------------------
(* Inputs.                                                                 *)

\* All strings over chars of length at most n.
Strings(chars, n) == UNION {[1..k -> chars] : k \in 0..n}

FormulaChars == {"H", "O", "2", "(", ")"}
SkipChars    == {"H", "l", "2", "(", ")", "*"}  \* l and * can be skipped

AluminiumSulfate == <<"A","l","2","(","S","O","4",")","3">>   \* Al2(SO4)3
Glucose == <<"C","6","H","1","2","O","6">>   \* C6H12O6
Water == <<"H","2","O">>   \* H2O
Salt == <<"N","a","C","l">>   \* NaCl
CarbonDioxide == <<"C","O","2">>   \* CO2
AceticAcid == <<"C","H","3","C","O","O","H">>   \* CH3COOH
UnknownXx == <<"X","x","2","O">>   \* Xx2O
StrayDigit == <<"2","H","2","O">>   \* 2H2O
PrussianBlue == <<"F","e","4","(","F","e","(","C","N",")","6",")","3">>   \* Fe4(Fe(CN)6)3, a group in a group

TestFormulas    == {AluminiumSulfate, Glucose}
ExampleFormulas == {AluminiumSulfate, Glucose, Water, Salt, CarbonDioxide,
                    AceticAcid, UnknownXx, StrayDigit, PrussianBlue}

Formulas == Strings(FormulaChars, MaxLen) \cup Strings(SkipChars, MaxSkipLen)
               \cup ExampleFormulas
OpenGroup  == <<"(", "H">>
StrayClose == <<"H", ")">>
CallFormulas == Strings(FormulaChars, MaxCallLen) \cup {Water, OpenGroup, StrayClose}

\* The list the builder ends with, and the file it writes.
BuiltRecords ==
    [k \in 1..Len(elements_data) |-> ElementRecord(k, elements_data[k])]
BuiltFile == Dump(BuiltRecords)

Hydrogen == ElementRecord(1, elements_data[1])

\* A dataset file cut short: the first n records only.
PrefixFile(n) == Dump(SubSeq(BuiltRecords, 1, n))

\* Contents elements.json can have when the calculator starts.
DatasetFiles ==
    { MissingFile, BinaryFile, GarbageFile, BuiltFile,
      Dump(<<Hydrogen>>),
      JsonFile(JList(<<>>)),
      JsonFile(JNumber),
      JsonFile(JObject(<<>>)),
      JsonFile(JObject([H |-> <<1, 0, 80, 0, 0>>])),
      JsonFile(JList(<<JNumber>>)),
      JsonFile(JList(<<JObject([name |-> "Hydrogen"])>>)),
      JsonFile(JList(<<JObject(Hydrogen), JObject([symbol |-> <<"X">>])>>)) }

---------------------------------------------------------------------------
(* Specifications.                                                         *)

BuilderIdle == elements_json = <<>> /\ enum_i = 0

NotLoaded ==
    /\ elements = JList(<<>>)
    /\ element_masses = EmptyMasses
    /\ proc = "load"

\* The module-level code has run on the file f without raising.
LoadedFrom(f) ==
    /\ elements = load_elements(f).value
    /\ element_masses = MassLookup(load_elements(f).value).masses
    /\ proc = "ready"

NoCall ==
    /\ matches = <<>>
    /\ stack = <<>>
    /\ i = 0
    /\ composition = EmptyFrame
    /\ items = <<>>
    /\ total_mass = ZeroMass
    /\ outcome = Pending
    /\ pc = "idle"
    /\ first = [set |-> FALSE, formula |-> <<>>, outcome |-> Pending,
                composition |-> EmptyFrame]
    /\ calls = 0

\* the one call of a run: calculate_molar_mass(formula, element_masses)
FirstCall == pc = "idle" /\ CallBegin(formula)

\* one more call, with any formula
AnyCall == calls < MaxCalls /\ \E f \in CallFormulas : CallBegin(f)

\* The calculator, its dataset loaded, makes one call: any enumerated
\* formula on no dataset, on Hydrogen alone and on Hydrogen to Oxygen, and
\* the example formulas on the built dataset.
Init ==
    /\ BuilderIdle
    /\ \/ /\ file \in {MissingFile, PrefixFile(1), PrefixFile(8)}
          /\ formula \in Formulas
       \/ /\ file = BuiltFile
          /\ formula \in ExampleFormulas
    /\ LoadedFrom(file)
    /\ NoCall

Next == FirstCall \/ ParseIter \/ ParseReturn \/ SumIter \/ SumReturn

Spec == Init /\ [][Next]_vars

\* The calculator makes one call after another.
InitCalls ==
    /\ BuilderIdle
    /\ file = PrefixFile(1)
    /\ LoadedFrom(file)
    /\ formula = <<>>
    /\ NoCall

NextCalls == AnyCall \/ ParseIter \/ ParseReturn \/ SumIter \/ SumReturn

SpecCalls == InitCalls /\ [][NextCalls]_vars

\* The calculator starts on some dataset file and makes one call.
InitLoad ==
    /\ BuilderIdle
    /\ file \in DatasetFiles
    /\ NotLoaded
    /\ formula \in CallFormulas \cup ExampleFormulas
    /\ NoCall

NextLoad == Load \/ BuildLookup \/ MainPrints \/ FirstCall \/ ParseIter \/ ParseReturn
               \/ SumIter \/ SumReturn

SpecLoad == InitLoad /\ [][NextLoad]_vars

\* The builder and the calculator's tests, from a directory without dataset.
InitBuild ==
    /\ BuilderIdle
    /\ file = MissingFile
    /\ NotLoaded
    /\ formula \in TestFormulas
    /\ NoCall

NextBuild == BuildIter \/ WriteFile \/ Load \/ BuildLookup \/ MainPrints
                \/ FirstCall \/ ParseIter \/ ParseReturn \/ SumIter \/ SumReturn

SpecBuild == InitBuild /\ [][NextBuild]_vars

---------------------------------------------------------------------------
(* The composition a formula denotes, read off its token sequence m        *)
(* without a stack.                                                        *)

LeftParen  == <<"(">>
RightParen == <<")">>

Opens(m, a, b)  == Cardinality({k \in a..b : m[k] = LeftParen})
Closes(m, a, b) == Cardinality({k \in a..b : m[k] = RightParen})

\* The ")" tokens that close the group opened at o; the first is its match.
Closers(m, o) ==
    {c \in (o + 1)..Len(m) : m[c] = RightParen /\ Opens(m, o, c) = Closes(m, o, c)}
IsClosed(m, o) == Closers(m, o) # {}
Match(m, o) == CHOOSE c \in Closers(m, o) : \A d \in Closers(m, o) : c <= d

Balanced(m) ==
    /\ \A k \in 1..Len(m) : Closes(m, 1, k) <= Opens(m, 1, k)
    /\ Opens(m, 1, Len(m)) = Closes(m, 1, Len(m))

\* A digit run is attached when it directly follows an element or a ")".
Attached(m, j) ==
    j > 1 /\ (IsElementToken(m[j - 1]) \/ m[j - 1] = RightParen)
DigitsAttached(m) ==
    \A j \in 1..Len(m) : IsDigitToken(m[j]) => Attached(m, j)

RECURSIVE Pow10(_)
Pow10(n) == IF n = 0 THEN 1 ELSE 10 * Pow10(n - 1)

RECURSIVE DecimalFrom(_, _)
DecimalFrom(token, k) ==
    IF k > Len(token) THEN 0
    ELSE DigitValue[token[k]] * Pow10(Len(token) - k) + DecimalFrom(token, k + 1)

\* The number written after position j: the digit run there, or 1.
NumberAfter(m, j) ==
    IF j < Len(m) /\ IsDigitToken(m[j + 1]) THEN DecimalFrom(m[j + 1], 1) ELSE 1

\* The groups around position j, each named by its "(".
Enclosing(m, j) ==
    {o \in 1..(j - 1) : m[o] = LeftParen /\ IsClosed(m, o) /\ Match(m, o) > j}

RECURSIVE Multiplier(_, _)
Multiplier(m, S) ==
    IF S = {} THEN 1
    ELSE LET o == CHOOSE x \in S : TRUE IN
         NumberAfter(m, Match(m, o)) * Multiplier(m, S \ {o})

RECURSIVE TotalOver(_, _)
TotalOver(m, S) ==
    IF S = {} THEN 0
    ELSE LET j == CHOOSE x \in S : TRUE IN
         NumberAfter(m, j) * Multiplier(m, Enclosing(m, j)) + TotalOver(m, S \ {j})

Occurrences(m, sym) == {j \in 1..Len(m) : m[j] = sym}
Symbols(m) == {m[j] : j \in {k \in 1..Len(m) : IsElementToken(m[k])}}
Denoted(m, sym) == TotalOver(m, Occurrences(m, sym))

\* The frame d is the composition the token sequence m denotes.
Denotes(d, m) ==
    /\ Keys(d) = Symbols(m)
    /\ Len(d) = Cardinality(Keys(d))
    /\ \A sym \in Keys(d) : FrameGet(d, sym) = Denoted(m, sym)

RECURSIVE Flatten(_)
Flatten(m) == IF m = <<>> THEN <<>> ELSE m[1] \o Flatten(Tail(m))

\* Every character of f is part of a token.
AllTokens(f) == Len(Flatten(FindAll(f))) = Len(f)

WellFormed(f) ==
    /\ AllTokens(f)
    /\ Balanced(FindAll(f))
    /\ DigitsAttached(FindAll(f))

Al == <<"A", "l">>
Sulfur == <<"S">>
Oxygen == <<"O">>

---------------------------------------------------------------------------
(* Claims.                                                                 *)

\* C1: for a well-formed formula parse_formula returns the fully reduced
\* composition: each symbol's total is the sum over its occurrences of the
\* occurrence's count times the product of the multipliers of the groups
\* enclosing it.
ParseReducesGroups ==
    (pc = "done" /\ WellFormed(formula)) =>
        /\ outcome.kind # "IndexError"
        /\ Denotes(composition, FindAll(formula))

ParseReducesGroups_witness ==
    /\ pc = "done"
    /\ formula = AluminiumSulfate
    /\ WellFormed(formula)
    /\ composition = << <<Al, 2>>, <<Sulfur, 3>>, <<Oxygen, 12>> >>

\* C2: parse_formula raises on no input string, balanced or not.
ParseNeverRaises ==
    pc = "done" => outcome.kind # "IndexError"

\* The positions of the composition d whose symbol has no entry in masses.
Unknown(d, masses) == {n \in 1..Len(d) : d[n][1] \notin DOMAIN masses}

\* C3: calculate_molar_mass fails with the unknown-element error exactly when
\* a symbol of the composition parse_formula returned is absent from the mass
\* mapping; the error names the first such symbol of the composition, and no
\* total is returned.
UnknownElementExactly ==
    pc = "done" =>
        LET p == parse_formula(formula)
            u == Unknown(p.value, element_masses)
        IN /\ outcome.kind = "ValueError" <=> (p.raised = "none" /\ u # {})
           /\ outcome.kind = "ValueError" =>
                 /\ \E n \in u : /\ outcome.element = p.value[n][1]
                                 /\ \A k \in u : n <= k
                 /\ outcome.total = ZeroMass
           /\ outcome.kind = "returned" => u = {}

UnknownElementExactly_witness ==
    /\ pc = "done"
    /\ formula = UnknownXx
    /\ <<"O">> \in DOMAIN element_masses
    /\ outcome = ValueError(<<"X", "x">>)

\* The sum of count * atomic_mass over the composition d, column by column
\* of the fixed-point digits, carried once at the end.
RECURSIVE ColumnSum(_, _, _)
ColumnSum(d, masses, k) ==
    IF d = <<>> THEN 0
    ELSE d[1][2] * masses[d[1][1]][k] + ColumnSum(Tail(d), masses, k)

ExactSum(d, masses) ==
    LET c5 == ColumnSum(d, masses, 5)
        c4 == ColumnSum(d, masses, 4) + c5 \div 100
        c3 == ColumnSum(d, masses, 3) + c4 \div 100
        c2 == ColumnSum(d, masses, 2) + c3 \div 100
        c1 == ColumnSum(d, masses, 1) + c2 \div 100
    IN <<c1, c2 % 100, c3 % 100, c4 % 100, c5 % 100>>

\* C4: when every symbol of the composition is in the mass mapping,
\* calculate_molar_mass returns exactly the sum over the composition of count
\* times atomic_mass, unrounded.
TotalIsExactSum ==
    pc = "done" =>
        LET p == parse_formula(formula) IN
        (p.raised = "none" /\ Unknown(p.value, element_masses) = {}) =>
            /\ outcome.kind = "returned"
            /\ outcome.total = ExactSum(p.value, element_masses)

TotalIsExactSum_witness ==
    /\ pc = "done"
    /\ formula = Glucose
    /\ composition = << <<<<"C">>, 6>>, <<<<"H">>, 12>>, <<<<"O">>, 6>> >>
    /\ outcome = Returned(<<180, 15, 60, 0, 0>>)

\* A fixed-point number in millionths (the last two digits dropped).
Millionths(x) == x[1] * 1000000 + x[2] * 10000 + x[3] * 100 + x[4]

\* C5: the Sulfur record the builder produces carries 32.065, and the molar
\* mass of Al2(SO4)3 computed from the built dataset is 342.146 within 0.01.
SulfurAveraged ==
    /\ enum_i >= 16 => elements_json[16].atomic_mass = <<32, 6, 50, 0, 0>>
    /\ (pc = "done" /\ formula = AluminiumSulfate /\ elements = BuiltFile.value) =>
          /\ outcome.kind = "returned"
          /\ Millionths(outcome.total) >= 342146000 - 10000
          /\ Millionths(outcome.total) <= 342146000 + 10000

IsRecord(v) ==
    v.jt = "object" /\ {"symbol", "atomic_mass"} \subseteq DOMAIN v.obj
ExpectedStructure(v) ==
    v.jt = "list" /\ \A k \in 1..Len(v.list) : IsRecord(v.list[k])
Unparseable(f) ==
    \/ f.kind \in {"missing", "not_json"}
    \/ f.kind = "json" /\ ~ExpectedStructure(f.value)
IsEmptyJson(v) == v.list = <<>> /\ DOMAIN v.obj = {}

\* C6: on a dataset file that is missing or not parseable as the expected
\* structure loading does not fail: the records and the lookup are empty and
\* every later calculation on a non-empty composition fails with the
\* unknown-element error.
LoadDegradesSoftly ==
    Unparseable(file) =>
        /\ proc # "crashed"
        /\ proc = "ready" => IsEmptyJson(elements) /\ element_masses = EmptyMasses
        /\ (pc = "done" /\ outcome.kind # "IndexError" /\ composition # EmptyFrame) =>
              outcome.kind = "ValueError"

\* C7: calls are independent: a call with the formula of the first call of
\* the run ends with the outcome and the composition of that first call; every
\* parse starts on a single empty root frame; the mass mapping stays what the
\* load made it.
CallsIndependent ==
    /\ (pc = "done" /\ first.set /\ formula = first.formula) =>
          /\ outcome = first.outcome
          /\ outcome.kind # "IndexError" => composition = first.composition
    /\ (pc = "parse" /\ i = 0) => stack = <<EmptyFrame>>
    /\ element_masses = MassLookup(load_elements(file).value).masses

CallsIndependent_witness ==
    /\ pc = "done"
    /\ calls = 3
    /\ formula = Water
    /\ first.formula = Water
    /\ outcome = ValueError(<<"O">>)
    /\ composition = << <<<<"H">>, 2>>, <<<<"O">>, 1>> >>

\* C8: the Nth record the builder produces has the name, symbol, atomic_mass
\* and group of the Nth tuple of the table and atomic_number N; its source is
\* the RSC URL exactly when its symbol is in ALTERNATE_SOURCE_ELEMENTS, the
\* PubChem URL otherwise.
RecordsFollowTable ==
    /\ Len(elements_json) = enum_i
    /\ \A n \in 1..Len(elements_json) :
          LET r == elements_json[n]
              t == elements_data[n]
          IN /\ r.name = t[1]
             /\ r.symbol = t[2]
             /\ r.atomic_mass = t[3]
             /\ r.group = t[4]
             /\ r.atomic_number = n
             /\ r.symbol \in ALTERNATE_SOURCE_ELEMENTS => r.source = RSC_URL
             /\ r.symbol \notin ALTERNATE_SOURCE_ELEMENTS => r.source = PUBCHEM_URL

RecordsFollowTable_witness ==
    /\ enum_i = Len(elements_data)
    /\ file = Dump(elements_json)
    /\ elements_json[19].name = "Potassium"
    /\ elements_json[19].atomic_number = 19
    /\ elements_json[82].symbol = <<"P", "b">>
    /\ elements_json[82].source = RSC_URL
    /\ elements_json[1].source = PUBCHEM_URL
    /\ proc = "ready"
    /\ elements = file.value
    /\ elements.list[19].obj.name = "Potassium"

\* The "(" tokens of m that no ")" closes.
Unclosed(m) == {o \in 1..Len(m) : m[o] = LeftParen /\ ~IsClosed(m, o)}
FirstUnclosed(m) == CHOOSE o \in Unclosed(m) : \A q \in Unclosed(m) : o <= q

\* C9: when the input ends with a "(" still unclosed parse_formula returns
\* the root frame only: what the input up to its first unclosed "(" put into
\* the root frame, and nothing counted after it.
UnclosedGroupDropped ==
    (pc = "done" /\ Unclosed(matches) # {}) =>
        LET before == ParseMatches(SubSeq(matches, 1, FirstUnclosed(matches) - 1)) IN
        /\ outcome.kind # "IndexError"
        /\ before.raised = "none"
        /\ composition = before.value

\* A character of f at position p that findall keeps: a token character, a
\* lowercase letter only directly after an uppercase one.
Kept(f, p) ==
    \/ f[p] \in Upper \cup Digit \cup {"(", ")"}
    \/ f[p] \in Lower /\ p > 1 /\ f[p - 1] \in Upper

RECURSIVE KeptFrom(_, _)
KeptFrom(f, p) ==
    IF p > Len(f) THEN <<>>
    ELSE (IF Kept(f, p) THEN <<f[p]>> ELSE <<>>) \o KeptFrom(f, p + 1)

TokenShaped(t) ==
    \/ t \in {LeftParen, RightParen}
    \/ Len(t) >= 1 /\ \A k \in 1..Len(t) : t[k] \in Digit
    \/ Len(t) = 1 /\ t[1] \in Upper
    \/ Len(t) = 2 /\ t[1] \in Upper /\ t[2] \in Lower

\* The token sequence m without its digit runs that are not attached.
RECURSIVE AttachedOnly(_, _)
AttachedOnly(m, j) ==
    IF j > Len(m) THEN <<>>
    ELSE (IF IsDigitToken(m[j]) /\ ~Attached(m, j) THEN <<>> ELSE <<m[j]>>)
            \o AttachedOnly(m, j + 1)

\* C10: the composition depends only on the token sequence: characters that
\* match no token are skipped; a digit run that does not directly follow an
\* element or ")" token changes nothing; a digit run that does is taken as
\* the count or multiplier, also across skipped characters.
SkippedChangeNothing ==
    pc = "done" =>
        LET kept == AttachedOnly(matches, 1)
            same == ParseMatches(kept)
        IN /\ Flatten(matches) = KeptFrom(formula, 1)
           /\ \A k \in 1..Len(matches) : TokenShaped(matches[k])
           /\ outcome.kind = "IndexError" <=> same.raised # "none"
           /\ outcome.kind # "IndexError" => composition = same.value
           /\ (outcome.kind # "IndexError" /\ Balanced(kept)) =>
                 Denotes(composition, kept)

SkippedChangeNothing_witness ==
    /\ pc = "done"
    /\ formula = <<"2", "H", "*", "2">>
    /\ matches = << <<"2">>, <<"H">>, <<"2">> >>
    /\ composition = << <<<<"H">>, 2>> >>

====
